---- MODULE Spec2Model ----
(***************************************************************************)
(* Model of the stability predictor's feature extraction                   *)
(* (custom_data_training.py) and of the demo caller (train_optimized.py).  *)
(*                                                                         *)
(* Numbers.  The Python code computes in binary floating point.  The model *)
(* computes in exact rational arithmetic: a number is a pair <<n, d>> in   *)
(* lowest terms with d > 0.  Rounding is not modelled, so an equality the  *)
(* model establishes is, on the code, an equality up to floating-point     *)
(* rounding (it is exact whenever the operands are exactly representable,  *)
(* as all integers and halves used below are).                             *)
(***************************************************************************)
EXTENDS Integers, Sequences, FiniteSets, TLC

VARIABLES items, box, call, ret, seen, scene, packedMeshes, runs

\* The demo page's state (train_optimized.py): the boxes in the three.js
\* scene, the global array packedMeshes and the runSimulation calls started.
demo == <<scene, packedMeshes, runs>>

vars == <<items, box, call, ret, seen, scene, packedMeshes, runs>>

-----------------------------------------------------------------------------
(* Exact rational arithmetic standing for Python's float operators.        *)

RECURSIVE GCD(_, _)
GCD(a, b) == IF b = 0 THEN a ELSE GCD(b, a % b)

IAbs(n) == IF n < 0 THEN -n ELSE n

Norm(n, d) ==
    IF d = 1 THEN <<n, 1>>
    ELSE LET s == IF d < 0 THEN -1 ELSE 1
             g == GCD(IAbs(n), IAbs(d))
         IN  <<(s * n) \div g, (s * d) \div g>>

R(n) == <<n, 1>>
Q(n, d) == Norm(n, d)

Zero == R(0)
One  == R(1)
Half == Q(1, 2)

Add(p, q) ==
    IF p[2] = 1 /\ q[2] = 1 THEN <<p[1] + q[1], 1>>
    ELSE Norm(p[1] * q[2] + q[1] * p[2], p[2] * q[2])
Sub(p, q) ==
    IF p[2] = 1 /\ q[2] = 1 THEN <<p[1] - q[1], 1>>
    ELSE Norm(p[1] * q[2] - q[1] * p[2], p[2] * q[2])
Mul(p, q) ==
    IF p[2] = 1 /\ q[2] = 1 THEN <<p[1] * q[1], 1>>
    ELSE Norm(p[1] * q[1], p[2] * q[2])
Div(p, q) == Norm(p[1] * q[2], p[2] * q[1])
Lt(p, q)  == p[1] * q[2] < q[1] * p[2]
Gt(p, q)  == Lt(q, p)
Leq(p, q) == ~Lt(q, p)

\* Python's built-ins: min/max return the first argument unless the second
\* is strictly smaller/larger.
min(p, q) == IF Lt(q, p) THEN q ELSE p
max(p, q) == IF Gt(q, p) THEN q ELSE p
abs(p)    == IF p[1] < 0 THEN <<-p[1], p[2]>> ELSE p

-----------------------------------------------------------------------------
(* Configuration, custom_data_training.py:56-58.                           *)

FEATURE_VECTOR_SIZE == 30

BOX == [width |-> R(100), height |-> R(100), depth |-> R(100)]

\* The argument `items` is either a Python list or None (a missing list).
None == [kind |-> "None"]
List(s) == [kind |-> "list", val |-> s]
IsNone(v) == v.kind = "None"

\* A Python exception leaving a call or an expression.
TypeError == [raised |-> "TypeError"]
ZeroDivisionError == [raised |-> "ZeroDivisionError"]
Raised(r) == DOMAIN r = {"raised"}

-----------------------------------------------------------------------------
(* Geometry primitives.                                                    *)

\* Variant: the minimum corner is taken for the center.
calculate_item_center_corner(item) ==
    [x |-> item.position.x, y |-> item.position.y, z |-> item.position.z]

calculate_item_center(item) ==
    [x |-> Add(item.position.x, Div(item.dimensions.width, R(2))),
     y |-> Add(item.position.y, Div(item.dimensions.height, R(2))),
     z |-> Add(item.position.z, Div(item.dimensions.depth, R(2)))]

\* Variant: item_b's far x edge is computed with item_a's width.
calculate_overlap_area_awidth(item_a, item_b) ==
    LET a_min_x == item_a.position.x
        a_max_x == Add(item_a.position.x, item_a.dimensions.width)
        a_min_z == item_a.position.z
        a_max_z == Add(item_a.position.z, item_a.dimensions.depth)
        b_min_x == item_b.position.x
        b_max_x == Add(item_b.position.x, item_a.dimensions.width)
        b_min_z == item_b.position.z
        b_max_z == Add(item_b.position.z, item_b.dimensions.depth)
        overlap_width == Sub(min(a_max_x, b_max_x), max(a_min_x, b_min_x))
        overlap_depth == Sub(min(a_max_z, b_max_z), max(a_min_z, b_min_z))
    IN  IF Gt(overlap_width, Zero) /\ Gt(overlap_depth, Zero)
        THEN Mul(overlap_width, overlap_depth)
        ELSE Zero

calculate_overlap_area(item_a, item_b) ==
    LET a_min_x == item_a.position.x
        a_max_x == Add(item_a.position.x, item_a.dimensions.width)
        a_min_z == item_a.position.z
        a_max_z == Add(item_a.position.z, item_a.dimensions.depth)
        b_min_x == item_b.position.x
        b_max_x == Add(item_b.position.x, item_b.dimensions.width)
        b_min_z == item_b.position.z
        b_max_z == Add(item_b.position.z, item_b.dimensions.depth)
        overlap_min_x == max(a_min_x, b_min_x)
        overlap_max_x == min(a_max_x, b_max_x)
        overlap_min_z == max(a_min_z, b_min_z)
        overlap_max_z == min(a_max_z, b_max_z)
        overlap_width == Sub(overlap_max_x, overlap_min_x)
        overlap_depth == Sub(overlap_max_z, overlap_min_z)
    IN  IF Gt(overlap_width, Zero) /\ Gt(overlap_depth, Zero)
        THEN Mul(overlap_width, overlap_depth)
        ELSE Zero

epsilon == Q(1, 1000)

\* Variant: the vertical distance is compared without abs().
is_below_signed(item_a, item_b) ==
    LET item_a_top == Add(item_a.position.y, item_a.dimensions.height)
        item_b_bottom == item_b.position.y
    IN  /\ Lt(Sub(item_a_top, item_b_bottom), epsilon)
        /\ Gt(calculate_overlap_area(item_a, item_b), Zero)

is_below(item_a, item_b) ==
    LET item_a_top == Add(item_a.position.y, item_a.dimensions.height)
        item_b_bottom == item_b.position.y
        is_vertically_adjacent == Lt(abs(Sub(item_a_top, item_b_bottom)), epsilon)
        has_overlap == Gt(calculate_overlap_area(item_a, item_b), Zero)
    IN  is_vertically_adjacent /\ has_overlap

-----------------------------------------------------------------------------
(* Physical metric calculators.  Each takes the Python list itself (a      *)
(* sequence); the entry points below add the behaviour on None.            *)

\* A Python accumulation loop over the first n terms t[1], ..., t[n]:
\* total = 0; for ...: total += term.  An exception raised while a term is
\* computed ends the loop and leaves it.
RECURSIVE SumOver(_, _)
SumOver(t, n) ==
    IF n = 0 THEN Zero
    ELSE LET total == SumOver(t, n - 1)
             term == t[n]
         IN  IF Raised(total) THEN total
             ELSE IF Raised(term) THEN term
             ELSE Add(total, term)

has_weight(item) == Gt(item.weight, Zero)

cog_of(weighted_items, box_) ==
    IF Len(weighted_items) = 0
    THEN [cog |-> [x |-> Div(box_.width, R(2)), y |-> Zero,
                   z |-> Div(box_.depth, R(2))],
          penalty |-> Zero]
    ELSE LET n == Len(weighted_items)
             I == 1..n
             center(i) == calculate_item_center(weighted_items[i])
             weight(i) == weighted_items[i].weight
             total_weight == SumOver([i \in I |-> weight(i)], n)
             cog_x == SumOver([i \in I |-> Mul(center(i).x, weight(i))], n)
             cog_y == SumOver([i \in I |-> Mul(center(i).y, weight(i))], n)
             cog_z == SumOver([i \in I |-> Mul(center(i).z, weight(i))], n)
         IN  IF total_weight = Zero
             THEN ZeroDivisionError
             ELSE [cog |-> [x |-> Div(cog_x, total_weight),
                            y |-> Div(cog_y, total_weight),
                            z |-> Div(cog_z, total_weight)],
                   penalty |-> Zero]

calculate_cog_penalty(its, box_) ==
    IF IsNone(its) THEN TypeError
    ELSE cog_of(SelectSeq(its.val, has_weight), box_)

is_non_floor(item) == Gt(item.position.y, Zero)

\* The inner loop of calculate_support_ratio_penalty (lines 203-209).
support_supported_area(item, its) ==
    LET term(potential_support) ==
            IF potential_support.id = item.id THEN Zero
            ELSE IF is_below(potential_support, item)
                 THEN calculate_overlap_area(potential_support, item)
                 ELSE Zero
    IN  SumOver([i \in 1..Len(its) |-> term(its[i])], Len(its))

\* Variant: the base area is taken as width * height.
support_ratio_wh(item, its) ==
    LET base_area == Mul(item.dimensions.width, item.dimensions.height)
        supported_area == support_supported_area(item, its)
    IN  IF Gt(base_area, Zero)
        THEN min(One, Div(supported_area, base_area))
        ELSE Zero

\* Variant: the ratio is computed without the guard on the base area.
support_ratio_unguarded(item, its) ==
    LET base_area == Mul(item.dimensions.width, item.dimensions.depth)
        supported_area == support_supported_area(item, its)
    IN  IF base_area = Zero
        THEN ZeroDivisionError
        ELSE min(One, Div(supported_area, base_area))

support_ratio(item, its) ==
    LET base_area == Mul(item.dimensions.width, item.dimensions.depth)
        supported_area == support_supported_area(item, its)
    IN  IF Gt(base_area, Zero)
        THEN min(One, Div(supported_area, base_area))
        ELSE Zero

calculate_support_ratio_penalty(its) ==
    IF IsNone(its) THEN TypeError
    ELSE LET non_floor_items == SelectSeq(its.val, is_non_floor)
         IN  IF Len(non_floor_items) = 0
             THEN [average |-> One, penalty |-> Zero]
             ELSE LET n == Len(non_floor_items)
                      ratio(item) == support_ratio(item, its.val)
                      total_ratio == SumOver([i \in 1..n |-> ratio(non_floor_items[i])], n)
                  IN  IF Raised(total_ratio)
                      THEN total_ratio
                      ELSE [average |-> Div(total_ratio, R(Len(non_floor_items))),
                            penalty |-> Zero]

\* The inner loop of calculate_overhang_penalty (lines 232-237).
overhang_supported_area(item, its) ==
    LET term(potential_support) ==
            IF potential_support.id = item.id THEN Zero
            ELSE IF is_below(potential_support, item)
                 THEN calculate_overlap_area(potential_support, item)
                 ELSE Zero
    IN  SumOver([i \in 1..Len(its) |-> term(its[i])], Len(its))

overhang_of(item, its) ==
    LET base_area == Mul(item.dimensions.width, item.dimensions.depth)
        perimeter == Mul(R(2), Add(item.dimensions.width, item.dimensions.depth))
        supported_area == min(overhang_supported_area(item, its), base_area)
        unsupported_area == max(Zero, Sub(base_area, supported_area))
    IN  IF Gt(perimeter, Zero)
        THEN Div(unsupported_area, perimeter)
        ELSE Zero

calculate_overhang_penalty(its) ==
    IF IsNone(its) THEN TypeError
    ELSE LET non_floor_items == SelectSeq(its.val, is_non_floor)
         IN  IF Len(non_floor_items) = 0
             THEN [total_overhang |-> Zero, penalty |-> Zero]
             ELSE LET n == Len(non_floor_items)
                      contribution(item) == overhang_of(item, its.val)
                      total_overhang ==
                          SumOver([i \in 1..n |-> contribution(non_floor_items[i])], n)
                  IN  IF Raised(total_overhang)
                      THEN total_overhang
                      ELSE [total_overhang |-> total_overhang, penalty |-> Zero]

-----------------------------------------------------------------------------
(* Feature vector assembler.                                               *)

\* sorted(items, key=lambda x: x["position"]["y"]): Python's sort is stable,
\* so an item is inserted after every item whose key is not larger.
\* Variant: an unstable sort, which puts an item before its equals.
RECURSIVE InsertByY_unstable(_, _)
InsertByY_unstable(item, s) ==
    IF s = <<>> THEN <<item>>
    ELSE IF Leq(item.position.y, Head(s).position.y)
         THEN <<item>> \o s
         ELSE <<Head(s)>> \o InsertByY_unstable(item, Tail(s))

RECURSIVE InsertByY(_, _)
InsertByY(item, s) ==
    IF s = <<>> THEN <<item>>
    ELSE IF Lt(item.position.y, Head(s).position.y)
         THEN <<item>> \o s
         ELSE <<Head(s)>> \o InsertByY(item, Tail(s))

\* Variant: the items are taken in the caller's order.
sorted_identity(s) == s

RECURSIVE sorted(_)
sorted(s) ==
    IF s = <<>> THEN <<>>
    ELSE InsertByY(s[Len(s)], sorted(SubSeq(s, 1, Len(s) - 1)))

max_items == 6

\* Variant: the per-item features are not clamped.
per_item_feature_unclamped(item, k, box_) ==
    LET volume == Mul(Mul(item.dimensions.width, item.dimensions.height),
                      item.dimensions.depth)
        base_area == Mul(item.dimensions.width, item.dimensions.depth)
        center == calculate_item_center(item)
    IN  CASE k = 0 -> Div(item.weight, R(20))
          [] k = 1 -> Div(volume, R(100000))
          [] k = 2 -> Div(base_area, R(10000))
          [] k = 3 -> Div(center.y, box_.height)

per_item_feature(item, k, box_) ==
    LET volume == Mul(Mul(item.dimensions.width, item.dimensions.height),
                      item.dimensions.depth)
        base_area == Mul(item.dimensions.width, item.dimensions.depth)
        center == calculate_item_center(item)
    IN  CASE k = 0 -> min(One, Div(item.weight, R(20)))
          [] k = 1 -> min(One, Div(volume, R(100000)))
          [] k = 2 -> min(One, Div(base_area, R(10000)))
          [] k = 3 -> min(One, Div(center.y, box_.height))

\* Variant: the empty vector reports no support.
sentinel_features_nosupport ==
    [s \in 0..(FEATURE_VECTOR_SIZE - 1) |->
        CASE s = 0 -> Half
          [] s = 2 -> Half
          [] OTHER -> Zero]

\* The vector returned for empty input (lines 256-263).
sentinel_features ==
    [s \in 0..(FEATURE_VECTOR_SIZE - 1) |->
        CASE s = 0 -> Half
          [] s = 1 -> Zero
          [] s = 2 -> Half
          [] s = 3 -> One
          [] OTHER -> Zero]

extract_features(its, box_) ==
    IF IsNone(its) \/ Len(its.val) = 0
    THEN sentinel_features
    ELSE LET sorted_items == sorted(its.val)
             cog_result == calculate_cog_penalty(List(sorted_items), box_)
             support_result == calculate_support_ratio_penalty(List(sorted_items))
             overhang_result == calculate_overhang_penalty(List(sorted_items))
             box_perimeter == Mul(R(2), Add(box_.width, box_.depth))
         IN  IF Raised(cog_result) THEN cog_result
             ELSE IF Raised(support_result) THEN support_result
             ELSE IF Raised(overhang_result) THEN overhang_result
             ELSE
             [s \in 0..(FEATURE_VECTOR_SIZE - 1) |->
                CASE s = 0 -> min(One, max(Zero, Div(cog_result.cog.x, box_.width)))
                  [] s = 1 -> min(One, max(Zero, Div(cog_result.cog.y, box_.height)))
                  [] s = 2 -> min(One, max(Zero, Div(cog_result.cog.z, box_.depth)))
                  [] s = 3 -> support_result.average
                  [] s = 4 -> min(One, Div(overhang_result.total_overhang, box_perimeter))
                  [] s = 5 -> min(One, Div(R(Len(its.val)), R(10)))
                  [] OTHER ->
                       LET i == (s - 6) \div 4
                       IN  IF i < max_items /\ i < Len(sorted_items)
                           THEN per_item_feature(sorted_items[i + 1], (s - 6) % 4, box_)
                           ELSE Zero]

-----------------------------------------------------------------------------
(* The demo caller, train_optimized.py:100-112: the vector runSimulation   *)
(* hands to the stability predictor for an item and the item below it.     *)
(* A demo item {l, w, h, weight} is drawn as a box of width l, height h    *)
(* and depth w (spawnBox, line 156).                                       *)

stability_input(item, itemBelow) ==
    << item.dimensions.width, item.dimensions.depth, item.dimensions.height,
       item.weight,
       itemBelow.dimensions.width, itemBelow.dimensions.depth, itemBelow.weight,
       Zero >>

-----------------------------------------------------------------------------
(* Inputs.  An item is the record of the input schema                      *)
(* (custom_data_training.py:13-19).                                        *)

Item(id, x, y, z, width, height, depth, weight) ==
    [id |-> id,
     position |-> [x |-> x, y |-> y, z |-> z],
     dimensions |-> [width |-> width, height |-> height, depth |-> depth],
     weight |-> weight]

\* Longest item list of the feature specification: one more than max_items,
\* so that a seventh item exists.
MaxItems == 7

\* Longest item list in which all placements mix freely.
MaxFree == 3

\* Placements the sample lists are drawn from.
\*   P1 stands on the floor; P2 stands on the floor opposite P1 (their
\*   centers are symmetric about the axis of BOX) and has the same weight;
\*   P3 rests on P1 with most of its large base overhanging, weight above 20;
\*   P4 rests on P2, fully supported, weightless and taller than BOX.
P1 == Item(0, R(0),  R(0),  R(0),  R(40),  R(20),  R(40),  R(10))
P2 == Item(0, R(70), R(0),  R(70), R(20),  R(10),  R(20),  R(10))
P3 == Item(0, R(20), R(20), R(0),  R(200), R(20),  R(200), R(30))
P4 == Item(0, R(70), R(10), R(70), R(20),  R(200), R(20),  R(0))

Placements == {P1, P2, P3, P4}

\* Ids are assigned by the position in the list, so they are unique within
\* an arrangement.
WithIds(f) == [i \in DOMAIN f |-> [f[i] EXCEPT !.id = i]]

ListsOver(S, n) == UNION { [1..k -> S] : k \in 0..n }

\* Lists of up to MaxItems items over any two placements, and every list of
\* up to MaxFree items.
ItemLists ==
    { WithIds(f) : f \in UNION { ListsOver({p, q}, MaxItems) : p, q \in Placements }
                         \cup ListsOver(Placements, MaxFree) }

Boxes == { BOX, [width |-> R(50), height |-> R(25), depth |-> R(80)] }

-----------------------------------------------------------------------------
(* Specification of the feature extraction: a sample is drawn, then one    *)
(* of the functions is called on it.  `call` names the function and the    *)
(* indices of the items it was given; `ret` is what it returned or raised. *)

NoCall == [fn |-> "none", args |-> <<>>]

\* An object of the scene is named by its kind and, for the cube spawnBox
\* makes, by the run and the manifest index it was made for.
Cube(r, i) == <<"cube", r, i>>

\* What init() puts into the scene (lines 31, 36, 44, 48).
Fixtures == { <<name, 0, 0>> : name \in {"ambientLight", "dirLight", "line", "grid"} }

\* The page after init(): no box in the scene and no run started.
PageLoaded ==
    /\ scene = Fixtures
    /\ packedMeshes = <<>>
    /\ runs = <<>>

Init ==
    /\ items \in { List(s) : s \in ItemLists } \cup { None }
    /\ box \in Boxes
    /\ call = NoCall
    /\ ret = None
    /\ seen = <<>>
    /\ PageLoaded

ExtractFeatures ==
    /\ call = NoCall
    /\ call' = [fn |-> "extract_features", args |-> <<>>]
    /\ ret' = extract_features(items, box)
    /\ UNCHANGED <<items, box, seen, demo>>

CalculateCogPenalty ==
    /\ call = NoCall
    /\ call' = [fn |-> "calculate_cog_penalty", args |-> <<>>]
    /\ ret' = calculate_cog_penalty(items, box)
    /\ UNCHANGED <<items, box, seen, demo>>

CalculateSupportRatioPenalty ==
    /\ call = NoCall
    /\ call' = [fn |-> "calculate_support_ratio_penalty", args |-> <<>>]
    /\ ret' = calculate_support_ratio_penalty(items)
    /\ UNCHANGED <<items, box, seen, demo>>

CalculateOverhangPenalty ==
    /\ call = NoCall
    /\ call' = [fn |-> "calculate_overhang_penalty", args |-> <<>>]
    /\ ret' = calculate_overhang_penalty(items)
    /\ UNCHANGED <<items, box, seen, demo>>

\* runSimulation's stability check of item i against item i-1 (i > 0).
StabilityInput ==
    /\ call = NoCall
    /\ ~IsNone(items)
    /\ \E i \in 2..Len(items.val) :
         /\ call' = [fn |-> "predictStability", args |-> <<i, i - 1>>]
         /\ ret' = stability_input(items.val[i], items.val[i - 1])
    /\ UNCHANGED <<items, box, seen, demo>>

Next ==
    \/ ExtractFeatures
    \/ CalculateCogPenalty
    \/ CalculateSupportRatioPenalty
    \/ CalculateOverhangPenalty
    \/ StabilityInput

Spec == Init /\ [][Next]_vars

-----------------------------------------------------------------------------
(* Specification of the geometry primitives and of the two-item stack: a   *)
(* lower item standing on the floor and a second item placed around it,    *)
(* at heights on, just above, above and beside the lower item's top face.  *)

\* Largest x and z offsets of the second item, in steps of 10.
MaxX == 2
MaxZ == 1

Widths == {R(10), R(20)}
Weights == {R(0), R(5)}

\* Bottom faces of the second item; the lower item's top face is at 10.
\* The gaps to it are -10, 0, 0.0005, 0.002 and 10.
Heights == {R(0), R(10), Q(20001, 2000), Q(5001, 500), R(20)}

Lowers ==
    { Item(1, R(10), R(0), R(10), w, R(10), R(20), wt) : w \in Widths, wt \in Weights }

Uppers ==
    { Item(2, R(10 * i), y, R(10 * k), w, R(10), R(20), wt) :
        i \in 0..MaxX, k \in 0..MaxZ, y \in Heights, w \in Widths, wt \in Weights }

InitGeometry ==
    /\ items \in { List(<<a, b>>) : a \in Lowers, b \in Uppers }
    /\ box = BOX
    /\ call = NoCall
    /\ ret = None
    /\ seen = <<>>
    /\ PageLoaded

CalculateItemCenter ==
    /\ call = NoCall
    /\ \E i \in 1..Len(items.val) :
         /\ call' = [fn |-> "calculate_item_center", args |-> <<i>>]
         /\ ret' = calculate_item_center(items.val[i])
    /\ UNCHANGED <<items, box, seen, demo>>

CalculateOverlapArea ==
    /\ call = NoCall
    /\ \E i, j \in 1..Len(items.val) :
         /\ call' = [fn |-> "calculate_overlap_area", args |-> <<i, j>>]
         /\ ret' = calculate_overlap_area(items.val[i], items.val[j])
    /\ UNCHANGED <<items, box, seen, demo>>

IsBelow ==
    /\ call = NoCall
    /\ \E i, j \in 1..Len(items.val) :
         /\ call' = [fn |-> "is_below", args |-> <<i, j>>]
         /\ ret' = is_below(items.val[i], items.val[j])
    /\ UNCHANGED <<items, box, seen, demo>>

NextGeometry ==
    \/ CalculateItemCenter
    \/ CalculateOverlapArea
    \/ IsBelow
    \/ CalculateSupportRatioPenalty
    \/ CalculateOverhangPenalty

SpecGeometry == InitGeometry /\ [][NextGeometry]_vars

-----------------------------------------------------------------------------
(* Specification of a caller that makes several calls, one after another,  *)
(* each with arguments of its choice.  `items` is the caller's list as the *)
(* last call left it and `seen` the history of the calls: what was passed, *)
(* what the caller's list was afterwards and what came back.               *)

MaxCalls == 3

\* Arguments a caller passes: nothing, an empty list, a single item, a list
\* that is not in ascending y order and a list with a weightless item.
CallSamples ==
    { None, List(<<>>), List(WithIds(<<P1>>)), List(WithIds(<<P3, P1>>)),
      List(WithIds(<<P1, P2, P4>>)) }

\* Line 253: every call allocates a fresh vector of zeros.
np_zeros_shared ==
    IF Len(seen) > 0 /\ seen[Len(seen)].fn = "extract_features"
    THEN seen[Len(seen)].ret
    ELSE [s \in 0..(FEATURE_VECTOR_SIZE - 1) |-> Zero]

np_zeros == [s \in 0..(FEATURE_VECTOR_SIZE - 1) |-> Zero]

\* The slots a call assigns: lines 257-262 for empty input, lines 270-310
\* (all of them) otherwise.  The others keep what np.zeros put there.
assigned_slots(its) ==
    IF IsNone(its) \/ Len(its.val) = 0
    THEN 0..5
    ELSE 0..(FEATURE_VECTOR_SIZE - 1)

\* The vector a call returns.  For empty input it is features as allocated
\* with slots 0..5 overwritten by the values of lines 257-262; otherwise
\* every slot is assigned.
features_returned(its, box_) ==
    IF assigned_slots(its) = DOMAIN np_zeros
    THEN extract_features(its, box_)
    ELSE [s \in DOMAIN np_zeros |->
            IF s \in assigned_slots(its) THEN sentinel_features[s] ELSE np_zeros[s]]

InitCalls ==
    /\ items = None
    /\ box = BOX
    /\ call = NoCall
    /\ ret = None
    /\ seen = <<>>
    /\ PageLoaded

\* extract_features assigns to its locals only (features, sorted_items, ...):
\* sorted() at line 266 builds a new list, so the caller's list is as passed.
CallExtractFeatures ==
    /\ Len(seen) < MaxCalls
    /\ \E its \in CallSamples, bx \in Boxes :
          /\ call' = [fn |-> "extract_features", args |-> <<its, bx>>]
          /\ ret' = features_returned(its, bx)
          /\ items' = its
          /\ box' = bx
          /\ seen' = Append(seen, [fn |-> "extract_features", items |-> its,
                                   box |-> bx, after |-> items', ret |-> ret'])
    /\ UNCHANGED demo

CallCalculateCogPenalty ==
    /\ Len(seen) < MaxCalls
    /\ \E its \in CallSamples, bx \in Boxes :
          /\ call' = [fn |-> "calculate_cog_penalty", args |-> <<its, bx>>]
          /\ ret' = calculate_cog_penalty(its, bx)
          /\ items' = its
          /\ box' = bx
          /\ seen' = Append(seen, [fn |-> "calculate_cog_penalty", items |-> its,
                                   box |-> bx, after |-> items', ret |-> ret'])
    /\ UNCHANGED demo

NextCalls ==
    \/ CallExtractFeatures
    \/ CallCalculateCogPenalty

SpecCalls == InitCalls /\ [][NextCalls]_vars

-----------------------------------------------------------------------------
(* Items as Python dicts that may lack a key.  item["k"] on a dict without *)
(* the key k raises KeyError, which leaves extract_features: nothing in    *)
(* the module catches it.                                                  *)

KeyError == [raised |-> "KeyError"]

\* The required fields, named by their last key.
Fields == {"id", "x", "y", "z", "width", "height", "depth", "weight"}

Has(item, f) ==
    CASE f \in {"id", "weight"} -> f \in DOMAIN item
      [] f \in {"x", "y", "z"} -> f \in DOMAIN item.position
      [] OTHER -> f \in DOMAIN item.dimensions

\* The dict without the key.
Without(item, f) ==
    CASE f \in {"id", "weight"} -> [k \in DOMAIN item \ {f} |-> item[k]]
      [] f \in {"x", "y", "z"} ->
            [item EXCEPT !.position = [k \in DOMAIN item.position \ {f} |-> item.position[k]]]
      [] OTHER ->
            [item EXCEPT !.dimensions =
                [k \in DOMAIN item.dimensions \ {f} |-> item.dimensions[k]]]

\* Whether one of the lookups extract_features makes on a non-empty list
\* raises KeyError.  The lookups, in the order of the code:
\*   line 266       the sort key position.y of every item;
\*   line 168       weight of every item;
\*   lines 180-183  the center (lines 123-125) of every item of weight > 0;
\*   lines 194-209  if some item has y > 0: width and depth of each such item,
\*                  id of every item, and for each pair of a potential support
\*                  and a non-floor item of different id the fields is_below
\*                  and calculate_overlap_area read (lines 131-139, 156-157);
\*   lines 221-237  the same fields again;
\*   lines 291-304  dimensions, center and weight of the first max_items
\*                  items of the sorted list.
lookup_fails(its) ==
    LET All == 1..Len(its)
        lacks(item, F) == \E f \in F : ~Has(item, f)
        center_fields == {"x", "width", "y", "height", "z", "depth"}
        overlap_fields == {"x", "width", "z", "depth"}
    IN  IF \E i \in All : lacks(its[i], {"y"}) THEN TRUE
        ELSE IF \E i \in All : lacks(its[i], {"weight"}) THEN TRUE
        ELSE IF \E i \in All : has_weight(its[i]) /\ lacks(its[i], center_fields) THEN TRUE
        ELSE LET NonFloor == { i \in All : is_non_floor(its[i]) }
                 sorted_items == sorted(its)
             IN  IF NonFloor # {}
                    /\ \/ \E i \in NonFloor : lacks(its[i], {"width", "depth"})
                       \/ \E j \in All : lacks(its[j], {"id"})
                       \/ \E i \in NonFloor, j \in All :
                             /\ its[j].id # its[i].id
                             /\ \/ lacks(its[j], {"y", "height"} \cup overlap_fields)
                                \/ lacks(its[i], overlap_fields)
                 THEN TRUE
                 ELSE \E k \in All :
                         /\ k <= max_items
                         /\ lacks(sorted_items[k], center_fields \cup {"weight"})

\* A call of extract_features on a list of dicts.
extract_features_of_dicts(its, box_) ==
    IF ~IsNone(its) /\ Len(its.val) > 0 /\ lookup_fails(its.val)
    THEN KeyError
    ELSE extract_features(its, box_)

\* Longest list of the specification of malformed input.
MaxDicts == 2

\* Lists of up to MaxDicts placements in which one item lacks one field.
MalformedLists ==
    { [g \in DOMAIN WithIds(f) |-> IF g = i THEN Without(WithIds(f)[g], fld) ELSE WithIds(f)[g]] :
        <<f, i, fld>> \in { t \in ListsOver(Placements, MaxDicts) \X (1..MaxDicts) \X Fields :
                            t[2] <= Len(t[1]) } }

InitMalformed ==
    /\ items \in { List(s) : s \in MalformedLists }
    /\ box = BOX
    /\ call = NoCall
    /\ ret = None
    /\ seen = <<>>
    /\ PageLoaded

ExtractFeaturesOfDicts ==
    /\ call = NoCall
    /\ call' = [fn |-> "extract_features", args |-> <<>>]
    /\ ret' = extract_features_of_dicts(items, box)
    /\ UNCHANGED <<items, box, seen, demo>>

NextMalformed == ExtractFeaturesOfDicts

SpecMalformed == InitMalformed /\ [][NextMalformed]_vars

-----------------------------------------------------------------------------
(* Specification of numerically malformed input: items whose fields are    *)
(* all present but break the data model (a zero or negative dimension, a   *)
(* negative weight or position), mixed with valid ones.                    *)

\* Longest list of this specification.
MaxNumeric == 3

\* No width, resting on P1.
Z1 == Item(0, R(10), R(20), R(10), R(0), R(10), R(40), R(5))
\* Neither width nor depth, and no weight.
Z2 == Item(0, R(10), R(20), R(10), R(0), R(10), R(0), R(0))
\* On the floor, flat and without weight.
Z3 == Item(0, R(50), R(0), R(50), R(20), R(0), R(20), R(0))
\* A negative weight.
N1 == Item(0, R(0), R(0), R(0), R(40), R(20), R(40), R(-5))
\* A negative width, above the floor.
N2 == Item(0, R(20), R(20), R(0), R(-10), R(10), R(40), R(10))
\* A negative position.
N3 == Item(0, R(-30), R(-40), R(0), R(20), R(10), R(20), R(10))

NumericPlacements == {P1, P3, Z1, Z2, Z3, N1, N2, N3}

InitNumeric ==
    /\ items \in { List(WithIds(f)) : f \in ListsOver(NumericPlacements, MaxNumeric) }
    /\ box = BOX
    /\ call = NoCall
    /\ ret = None
    /\ seen = <<>>
    /\ PageLoaded

NextNumeric ==
    \/ ExtractFeatures
    \/ CalculateCogPenalty
    \/ CalculateSupportRatioPenalty
    \/ CalculateOverhangPenalty

SpecNumeric == InitNumeric /\ [][NextNumeric]_vars

-----------------------------------------------------------------------------
(* Specification of the demo page (train_optimized.py).  JavaScript runs   *)
(* one task at a time: a click handler or a timer callback runs to its     *)
(* next await, and the continuations of promises that are already resolved *)
(* (microtasks) run before the next task.  A run of runSimulation is       *)
(* suspended either at `await spawnBox(...)` (line 115; the promise is     *)
(* resolved, its continuation is a pending microtask) or at the 200 ms     *)
(* delay (line 124; a timer, which the browser may fire late).  `call`     *)
(* names the handler or step that ran last.                                *)

CONTAINER == [w |-> 100, h |-> 100, d |-> 100]

\* Run clicks in a behaviour.
MaxRuns == 2

\* Items of a manifest (the demo asks generateManifest for 40, and with 40
\* items the tower passes CONTAINER.h before the manifest is used up; with
\* a manifest this short the loop ends at line 90 instead of line 126).
MaxManifest == 2

\* Heights generateManifest draws, 5 + floor(random * 10): the two extremes.
ManifestHeights == {5, 14}

Range(q) == { q[k] : k \in 1..Len(q) }

\* The part of the page state spawnBox and resetSimulation work on.
Page == [scene |-> scene, packedMeshes |-> packedMeshes]

\* Lines 181-182, run inside the promise executor, that is, during the call.
spawnBox(page, cube) ==
    [scene |-> page.scene \cup {cube},
     packedMeshes |-> Append(page.packedMeshes, cube)]

\* Variant: the array is emptied, the scene is left as it is.
resetSimulation_scene_kept(page) ==
    [scene |-> page.scene, packedMeshes |-> <<>>]

\* Lines 188-189.
resetSimulation(page) ==
    [scene |-> page.scene \ Range(page.packedMeshes), packedMeshes |-> <<>>]

\* A continuation of a resolved promise is pending: it runs before any
\* other handler.
MicrotaskPending == \E r \in 1..Len(runs) : runs[r].pc = "await spawnBox"

InitDemo ==
    /\ items = None
    /\ box = BOX
    /\ call = NoCall
    /\ ret = None
    /\ seen = <<>>
    /\ PageLoaded

\* One pass of the loop body from line 91 to the await at line 115, for item
\* i of height h of run r, on the page as it is then.  window.predictStability
\* is not defined in this file: the call at line 107 returns or throws, and a
\* throw ends the run.
LoopBody(r, i, currentY, h, page, throws) ==
    IF i > 0 /\ throws
    THEN /\ runs' = [runs EXCEPT ![r] = [pc |-> "failed", i |-> i, h |-> 0,
                                          currentY |-> currentY]]
         /\ scene' = page.scene
         /\ packedMeshes' = page.packedMeshes
    ELSE /\ runs' = [runs EXCEPT ![r] = [pc |-> "await spawnBox", i |-> i, h |-> h,
                                          currentY |-> currentY]]
         /\ scene' = spawnBox(page, Cube(r, i)).scene
         /\ packedMeshes' = spawnBox(page, Cube(r, i)).packedMeshes

\* A click on btn-run: runSimulation from line 64 to its first await.
\* window.predictPriority (line 77) is not defined in this file either.
ClickRun ==
    /\ ~MicrotaskPending
    /\ Len(runs) < MaxRuns
    /\ call' = [fn |-> "runSimulation", args |-> <<Len(runs) + 1>>]
    /\ \E h \in ManifestHeights, throws \in BOOLEAN :
          LET r == Len(runs) + 1
              page == resetSimulation(Page)
          IN  IF throws
              THEN /\ runs' = Append(runs, [pc |-> "failed", i |-> 0, h |-> 0,
                                            currentY |-> 0])
                   /\ scene' = page.scene
                   /\ packedMeshes' = page.packedMeshes
              ELSE /\ runs' = Append(runs, [pc |-> "await spawnBox", i |-> 0, h |-> h,
                                            currentY |-> 0])
                   /\ scene' = spawnBox(page, Cube(r, 0)).scene
                   /\ packedMeshes' = spawnBox(page, Cube(r, 0)).packedMeshes
    /\ UNCHANGED <<items, box, ret, seen>>

\* The continuation after `await spawnBox`: lines 118-124.
ResumeAfterSpawn ==
    /\ \E r \in 1..Len(runs) :
          /\ runs[r].pc = "await spawnBox"
          /\ call' = [fn |-> "runSimulation resumed", args |-> <<r>>]
          /\ runs' = [runs EXCEPT ![r] = [pc |-> "await timeout", i |-> runs[r].i,
                                           h |-> 0,
                                           currentY |-> runs[r].currentY + runs[r].h]]
    /\ UNCHANGED <<items, box, ret, seen, scene, packedMeshes>>

\* The timer of line 124 fires: line 126, then the next pass of the loop up
\* to its await, or line 129.
TimerFires ==
    /\ ~MicrotaskPending
    /\ \E r \in 1..Len(runs) :
          /\ runs[r].pc = "await timeout"
          /\ call' = [fn |-> "runSimulation timer", args |-> <<r>>]
          /\ IF runs[r].currentY > CONTAINER.h \/ runs[r].i + 1 >= MaxManifest
             THEN /\ runs' = [runs EXCEPT ![r].pc = "complete"]
                  /\ UNCHANGED <<scene, packedMeshes>>
             ELSE \E h \in ManifestHeights, throws \in BOOLEAN :
                      LoopBody(r, runs[r].i + 1, runs[r].currentY, h, Page, throws)
    /\ UNCHANGED <<items, box, ret, seen>>

\* A click on btn-reset: resetSimulation.
ClickReset ==
    /\ ~MicrotaskPending
    /\ call' = [fn |-> "resetSimulation", args |-> <<>>]
    /\ scene' = resetSimulation(Page).scene
    /\ packedMeshes' = resetSimulation(Page).packedMeshes
    /\ UNCHANGED <<items, box, ret, seen, runs>>

NextDemo ==
    \/ ClickRun
    \/ ResumeAfterSpawn
    \/ TimerFires
    \/ ClickReset

SpecDemo == InitDemo /\ [][NextDemo]_vars

-----------------------------------------------------------------------------
(* Properties.                                                             *)

Called(fn) == call.fn = fn

\* The k-th argument of the call, for the functions taking items.
Arg(k) == items.val[call.args[k]]

InUnit(v) == Leq(Zero, v) /\ Leq(v, One)

Slots == 0..(FEATURE_VECTOR_SIZE - 1)

\* The data model of an item and of a container.
ValidItem(it) ==
    /\ Leq(Zero, it.position.x) /\ Leq(Zero, it.position.y) /\ Leq(Zero, it.position.z)
    /\ Gt(it.dimensions.width, Zero) /\ Gt(it.dimensions.height, Zero)
    /\ Gt(it.dimensions.depth, Zero)
    /\ Leq(Zero, it.weight)

ValidItems(its) == IsNone(its) \/ \A i \in 1..Len(its.val) : ValidItem(its.val[i])

ValidBox(b) == Gt(b.width, Zero) /\ Gt(b.height, Zero) /\ Gt(b.depth, Zero)

NonEmpty(its) == ~IsNone(its) /\ Len(its.val) > 0

\* C1: for every list of valid items (missing, empty, up to six or more than
\* six items) and every container of positive dimensions, extract_features
\* returns a vector of exactly 30 slots, each in [0,1].
C1_LengthAndRange ==
    (Called("extract_features") /\ ValidItems(items) /\ ValidBox(box)) =>
        /\ DOMAIN ret = Slots
        /\ Cardinality(DOMAIN ret) = 30
        /\ \A s \in Slots : InUnit(ret[s])

\* More than six items, with the overhang, a weight, a volume and a base
\* area all reaching their clamp.
C1_Witness ==
    /\ Called("extract_features")
    /\ NonEmpty(items) /\ Len(items.val) > max_items
    /\ ret[4] = One
    /\ \E i \in 0..(max_items - 1) :
         ret[6 + 4 * i] = One /\ ret[7 + 4 * i] = One /\ ret[8 + 4 * i] = One

\* C2: for a missing or empty item list and every container,
\* extract_features returns the sentinel 0.5, 0, 0.5, 1.0, 0, 0 followed by
\* 24 zeros.
C2_Sentinel ==
    (Called("extract_features") /\ ~NonEmpty(items)) =>
        /\ DOMAIN ret = Slots
        /\ ret[0] = Half /\ ret[1] = Zero /\ ret[2] = Half
        /\ ret[3] = One /\ ret[4] = Zero /\ ret[5] = Zero
        /\ \A s \in 6..29 : ret[s] = Zero

\* The empty list, with a container other than the default one.
C2_Witness ==
    /\ Called("extract_features")
    /\ ~IsNone(items) /\ Len(items.val) = 0
    /\ box # BOX
    /\ ret[0] = Half /\ ret[3] = One

\* C3: the vector the inference side builds for an item and the item below
\* it equals the 30-slot vector extract_features returns for the
\* arrangement of these two items.
C3_TrainInferParity ==
    Called("predictStability") =>
        LET trained == extract_features(List(<<Arg(2), Arg(1)>>), BOX)
        IN  /\ Len(ret) = FEATURE_VECTOR_SIZE
            /\ \A s \in Slots : ret[s + 1] = trained[s]

Swap(s, i) == [s EXCEPT ![i] = s[i + 1], ![i + 1] = s[i]]

\* C4 as stated: the vector is the same for every permutation of the item
\* list.  Every permutation is a product of exchanges of neighbours, so it
\* is stated for these.
C4_AnyOrder ==
    (Called("extract_features") /\ NonEmpty(items)) =>
        \A i \in 1..(Len(items.val) - 1) :
            extract_features(List(Swap(items.val, i)), box) = ret

\* C4 as amended: the vector is the same for every permutation of the item
\* list that keeps the items of equal y in their relative order.  Such a
\* permutation is a product of exchanges of neighbours of different y.
C4_OrderUpToTies ==
    (Called("extract_features") /\ NonEmpty(items)) =>
        \A i \in 1..(Len(items.val) - 1) :
            (items.val[i].position.y # items.val[i + 1].position.y) =>
                extract_features(List(Swap(items.val, i)), box) = ret

\* More than six items, listed with a higher item before a lower one.
C4_Witness ==
    /\ Called("extract_features")
    /\ NonEmpty(items) /\ Len(items.val) > max_items
    /\ \E i \in 1..(Len(items.val) - 1) :
         Gt(items.val[i].position.y, items.val[i + 1].position.y)

\* The gap from a's top face up to b's bottom face.
Gap(a, b) == Sub(b.position.y, Add(a.position.y, a.dimensions.height))

\* C5: is_below(a, b) is false whenever the vertical gap between a's top
\* face and b's bottom face exceeds 0.001 (in either direction) or the x-z
\* overlap area is zero, and true when the gap is exactly 0 and the overlap
\* area is positive.
C5_IsBelow ==
    Called("is_below") =>
        LET a == Arg(1)
            b == Arg(2)
            area == calculate_overlap_area(a, b)
        IN  /\ (Gt(abs(Gap(a, b)), Q(1, 1000)) \/ area = Zero) => (ret = FALSE)
            /\ (Gap(a, b) = Zero /\ Gt(area, Zero)) => (ret = TRUE)

\* Touching faces and a partial overlap: a supports b.
C5_Witness ==
    /\ Called("is_below")
    /\ Gap(Arg(1), Arg(2)) = Zero
    /\ Gt(calculate_overlap_area(Arg(1), Arg(2)), Zero)
    /\ ret = TRUE

\* C6: calculate_overlap_area(a, b) = calculate_overlap_area(b, a).
C6_OverlapSymmetric ==
    Called("calculate_overlap_area") =>
        ret = calculate_overlap_area(Arg(2), Arg(1))

BaseArea(it) == Mul(it.dimensions.width, it.dimensions.depth)

\* Two different items of different widths that overlap in part.
C6_Witness ==
    /\ Called("calculate_overlap_area")
    /\ call.args[1] # call.args[2]
    /\ Arg(1).dimensions.width # Arg(2).dimensions.width
    /\ Gt(ret, Zero) /\ Lt(ret, BaseArea(Arg(1))) /\ Lt(ret, BaseArea(Arg(2)))

Perimeter(it) == Mul(R(2), Add(it.dimensions.width, it.dimensions.depth))

\* A lower item L on the floor and an upper item U resting on its top face.
IsStack(its) ==
    /\ ~IsNone(its) /\ Len(its.val) = 2
    /\ its.val[1].id # its.val[2].id
    /\ its.val[1].position.y = Zero
    /\ its.val[2].position.y = its.val[1].dimensions.height

\* U's footprint lies inside L's.
Inside(U, L) ==
    /\ Leq(L.position.x, U.position.x)
    /\ Leq(Add(U.position.x, U.dimensions.width), Add(L.position.x, L.dimensions.width))
    /\ Leq(L.position.z, U.position.z)
    /\ Leq(Add(U.position.z, U.dimensions.depth), Add(L.position.z, L.dimensions.depth))

\* C7: for L at y = 0 and U resting on L's top face, whatever the weights,
\* the support-ratio average is overlapArea(L,U) / baseArea(U) and the total
\* overhang is (baseArea(U) - overlapArea(L,U)) / perimeter(U); U inside L
\* gives 1.0 and 0, U overhanging by half its base gives 0.5 and
\* (baseArea(U)/2) / perimeter(U).
C7_TwoItemStack ==
    IsStack(items) =>
        LET L == items.val[1]
            U == items.val[2]
            area == calculate_overlap_area(L, U)
        IN  /\ Called("calculate_support_ratio_penalty") =>
                /\ ret.average = Div(area, BaseArea(U))
                /\ Inside(U, L) => ret.average = One
                /\ (Mul(R(2), area) = BaseArea(U)) => ret.average = Half
            /\ Called("calculate_overhang_penalty") =>
                /\ ret.total_overhang = Div(Sub(BaseArea(U), area), Perimeter(U))
                /\ Inside(U, L) => ret.total_overhang = Zero
                /\ (Mul(R(2), area) = BaseArea(U)) =>
                      ret.total_overhang = Div(Div(BaseArea(U), R(2)), Perimeter(U))

\* A weightless U overhanging a weightless L by half its base area.
C7_Witness ==
    /\ IsStack(items)
    /\ Called("calculate_support_ratio_penalty")
    /\ items.val[1].weight = Zero /\ items.val[2].weight = Zero
    /\ Mul(R(2), calculate_overlap_area(items.val[1], items.val[2])) = BaseArea(items.val[2])
    /\ ret.average = Half

\* No item of the list is above the floor (also when the list is missing).
NoNonFloor(its) ==
    IsNone(its) \/ \A i \in 1..Len(its.val) : ~Gt(its.val[i].position.y, Zero)

\* No item of the list has weight (also when the list is missing).
NoWeighted(its) ==
    IsNone(its) \/ \A i \in 1..Len(its.val) : ~Gt(its.val[i].weight, Zero)

\* C8: given a missing or empty list, or a list with no qualifying item,
\* each calculator returns its neutral default without faulting: average 1.0
\* and total_overhang 0 when no item has y > 0, and the cog
\* (box.width/2, 0, box.depth/2) when no item has weight > 0.
C8_NeutralDefaults ==
    /\ (Called("calculate_support_ratio_penalty") /\ NoNonFloor(items)) =>
          (~Raised(ret) /\ ret.average = One)
    /\ (Called("calculate_overhang_penalty") /\ NoNonFloor(items)) =>
          (~Raised(ret) /\ ret.total_overhang = Zero)
    /\ (Called("calculate_cog_penalty") /\ NoWeighted(items)) =>
          (~Raised(ret)
             /\ ret.cog = [x |-> Div(box.width, R(2)), y |-> Zero,
                           z |-> Div(box.depth, R(2))])

\* The weight of an item as the center of gravity counts it.
Mass(it) == IF Gt(it.weight, Zero) THEN it.weight ELSE Zero

CenterX(it) == Add(it.position.x, Div(it.dimensions.width, R(2)))
CenterY(it) == Add(it.position.y, Div(it.dimensions.height, R(2)))
CenterZ(it) == Add(it.position.z, Div(it.dimensions.depth, R(2)))

\* C9: calculate_cog_penalty returns the average of the item centers
\* weighted by weight over the items of weight > 0 (cog * total weight = sum
\* of center * weight), items of weight 0 never change it, two items of
\* equal positive weight placed symmetrically about the container's central
\* vertical axis give cog.x = box.width / 2, and penalty is 0.
C9_WeightedCenter ==
    (Called("calculate_cog_penalty") /\ ~IsNone(items)) =>
        LET s == items.val
            n == Len(s)
            I == 1..n
            total == SumOver([i \in I |-> Mass(s[i])], n)
            heavy == SelectSeq(s, LAMBDA it : it.weight # Zero)
        IN  /\ ret.penalty = Zero
            /\ Gt(total, Zero) =>
                 /\ Mul(ret.cog.x, total)
                      = SumOver([i \in I |-> Mul(CenterX(s[i]), Mass(s[i]))], n)
                 /\ Mul(ret.cog.y, total)
                      = SumOver([i \in I |-> Mul(CenterY(s[i]), Mass(s[i]))], n)
                 /\ Mul(ret.cog.z, total)
                      = SumOver([i \in I |-> Mul(CenterZ(s[i]), Mass(s[i]))], n)
            /\ ret = calculate_cog_penalty(List(heavy), box)
            /\ (/\ n = 2
                /\ s[1].weight = s[2].weight /\ Gt(s[1].weight, Zero)
                /\ Add(CenterX(s[1]), CenterX(s[2])) = box.width) =>
                 ret.cog.x = Div(box.width, R(2))

\* Weightless items among items of different positive weights, away from
\* the container's center.
C9_Witness ==
    /\ Called("calculate_cog_penalty") /\ NonEmpty(items)
    /\ \E i, j, k \in 1..Len(items.val) :
         /\ items.val[i].weight = Zero
         /\ Gt(items.val[j].weight, Zero)
         /\ Gt(items.val[k].weight, items.val[j].weight)
    /\ ret.cog.x # Div(box.width, R(2))

\* The 0-based rank of the j-th item in the stable ascending-y order: the
\* items of smaller y and the earlier items of equal y come before it.
Rank(s, j) ==
    Cardinality({ k \in 1..Len(s) :
                    \/ Lt(s[k].position.y, s[j].position.y)
                    \/ (s[k].position.y = s[j].position.y /\ k < j) })

Volume(it) == Mul(Mul(it.dimensions.width, it.dimensions.height), it.dimensions.depth)

RemoveAt(s, j) == [i \in 1..(Len(s) - 1) |-> IF i < j THEN s[i] ELSE s[i + 1]]

\* Slots 6..29 of two vectors agree.
SamePerItemSlots(f, g) == \A t \in 6..(FEATURE_VECTOR_SIZE - 1) : f[t] = g[t]

\* Slots 6..29 are those of the first six items of the stable ascending-y
\* order and zero for absent ranks, and removing or replacing an item of
\* rank six or more leaves them unchanged; the fourth slot of an item is
\* centerY / containerHeight, clamped at 1 or not.
PerItemSlots(clamped) ==
    (Called("extract_features") /\ NonEmpty(items)) =>
        LET s == items.val
            n == Len(s)
        IN  /\ \A j \in 1..n :
                 LET r == Rank(s, j)
                 IN  IF r < max_items
                     THEN /\ ret[6 + 4 * r] = min(One, Div(s[j].weight, R(20)))
                          /\ ret[7 + 4 * r] = min(One, Div(Volume(s[j]), R(100000)))
                          /\ ret[8 + 4 * r] = min(One, Div(BaseArea(s[j]), R(10000)))
                          /\ ret[9 + 4 * r] =
                                IF clamped
                                THEN min(One, Div(CenterY(s[j]), box.height))
                                ELSE Div(CenterY(s[j]), box.height)
                     ELSE /\ SamePerItemSlots(ret, extract_features(List(RemoveAt(s, j)), box))
                          /\ \A p \in Placements :
                               LET s2 == [s EXCEPT ![j] = [p EXCEPT !.id = s[j].id]]
                               IN  Rank(s2, j) >= max_items =>
                                     SamePerItemSlots(ret, extract_features(List(s2), box))
            /\ \A r \in n..(max_items - 1) : \A k \in 0..3 : ret[6 + 4 * r + k] = Zero

\* C10 as stated: the fourth per-item slot is centerY / containerHeight.
C10_PerItemSlotsUnclamped ==
    PerItemSlots(FALSE)

\* C10 as amended: the fourth per-item slot is
\* min(1, centerY / containerHeight).
C10_PerItemSlots ==
    PerItemSlots(TRUE)

\* More than six items, two items of equal y and different volume among the
\* first six, and an item of rank six or more whose replacement by an item
\* of a volume that none of the first six has keeps that rank.
C10_Witness ==
    /\ Called("extract_features") /\ NonEmpty(items)
    /\ Len(items.val) > max_items
    /\ \E i, j \in 1..Len(items.val) :
         /\ i < j /\ Rank(items.val, j) < max_items
         /\ items.val[i].position.y = items.val[j].position.y
         /\ Volume(items.val[i]) # Volume(items.val[j])
    /\ \E j \in 1..Len(items.val) : \E p \in Placements :
         /\ Rank(items.val, j) >= max_items
         /\ Rank([items.val EXCEPT ![j] = [p EXCEPT !.id = j]], j) >= max_items
         /\ \A i \in 0..(max_items - 1) :
              ret[7 + 4 * i] # min(One, Div(Volume(p), R(100000)))

-----------------------------------------------------------------------------
\* C11: extract_features is a pure function of (items, box).  Any two calls
\* in a caller's history that were passed equal items and an equal box
\* returned equal vectors, whatever was called before or between them, and
\* every call left the caller's list exactly as it was passed (same items,
\* same order).
ExtractCalls == { i \in 1..Len(seen) : seen[i].fn = "extract_features" }

-----------------------------------------------------------------------------
\* C12: for every non-empty item list in which some item lacks a required
\* field (id, position.x/y/z, dimensions.width/height/depth or weight),
\* extract_features raises an error and returns no feature vector.
IsVector(r) == DOMAIN r = Slots

SomeItemLacksField(its) ==
    \E i \in 1..Len(its.val) : \E f \in Fields : ~Has(its.val[i], f)

C12_MalformedFails ==
    (Called("extract_features") /\ NonEmpty(items) /\ SomeItemLacksField(items)) =>
        (~IsVector(ret) /\ Raised(ret))

-----------------------------------------------------------------------------
\* No dimension of an item of the list is negative.
NoNegativeDimension(its) ==
    \A i \in 1..Len(its.val) :
        /\ Leq(Zero, its.val[i].dimensions.width)
        /\ Leq(Zero, its.val[i].dimensions.height)
        /\ Leq(Zero, its.val[i].dimensions.depth)

NonFloor(its) == { i \in 1..Len(its.val) : Gt(its.val[i].position.y, Zero) }

\* What item i of the list adds to the sum of support ratios: nothing when
\* it is on the floor or its base area is zero.
SupportRatioOf(its, i) ==
    IF i \in NonFloor(its) /\ BaseArea(its.val[i]) # Zero
    THEN min(One, Div(support_supported_area(its.val[i], its.val), BaseArea(its.val[i])))
    ELSE Zero

\* What item i of the list adds to the total overhang: nothing when it is
\* on the floor or its perimeter is zero.
OverhangOf(its, i) ==
    IF i \in NonFloor(its) /\ Perimeter(its.val[i]) # Zero
    THEN Div(max(Zero, Sub(BaseArea(its.val[i]),
                           min(overhang_supported_area(its.val[i], its.val),
                               BaseArea(its.val[i])))),
             Perimeter(its.val[i]))
    ELSE Zero

\* C13: degenerate geometry never raises in the metric calculators.  For a
\* list whose dimensions may be zero, calculate_support_ratio_penalty returns
\* the mean of the support ratios with ratio 0 for each non-floor item of
\* zero base area, calculate_overhang_penalty returns a total to which a
\* non-floor item of zero perimeter adds nothing, and calculate_cog_penalty
\* returns the container center when no item has positive weight; each
\* returns a value.
C13_DegenerateGeometry ==
    /\ (Called("calculate_support_ratio_penalty") /\ NoNegativeDimension(items)) =>
          /\ ~Raised(ret)
          /\ NonFloor(items) # {} =>
                Mul(ret.average, R(Cardinality(NonFloor(items)))) =
                    SumOver([i \in 1..Len(items.val) |-> SupportRatioOf(items, i)],
                            Len(items.val))
    /\ (Called("calculate_overhang_penalty") /\ NoNegativeDimension(items)) =>
          /\ ~Raised(ret)
          /\ ret.total_overhang =
                SumOver([i \in 1..Len(items.val) |-> OverhangOf(items, i)],
                        Len(items.val))
    /\ (Called("calculate_cog_penalty") /\ NoNegativeDimension(items)
            /\ NoWeighted(items)) =>
          /\ ~Raised(ret)
          /\ ret.cog = [x |-> Div(box.width, R(2)), y |-> Zero, z |-> Div(box.depth, R(2))]

\* The support ratio of a list with a supported item and an item above the
\* floor that has no base area.
C13_Witness ==
    /\ Called("calculate_support_ratio_penalty")
    /\ NoNegativeDimension(items)
    /\ \E i \in NonFloor(items) : BaseArea(items.val[i]) = Zero
    /\ \E i \in NonFloor(items) : Gt(SupportRatioOf(items, i), Zero)
    /\ ~Raised(ret)
    /\ Gt(ret.average, Zero)

-----------------------------------------------------------------------------
\* C14: every normalized slot is clamped below at 0.  For a list containing
\* an item with a negative weight, a negative dimension or a negative
\* position, slot 4 and every per-item slot (slots 6..29) of the vector
\* extract_features returns is at least 0.
HasNegative(it) ==
    \/ Lt(it.weight, Zero)
    \/ Lt(it.dimensions.width, Zero) \/ Lt(it.dimensions.height, Zero)
    \/ Lt(it.dimensions.depth, Zero)
    \/ Lt(it.position.x, Zero) \/ Lt(it.position.y, Zero) \/ Lt(it.position.z, Zero)

C14_LowerClamp ==
    (Called("extract_features") /\ NonEmpty(items)
        /\ \E i \in 1..Len(items.val) : HasNegative(items.val[i])) =>
        /\ ~Raised(ret)
        /\ Leq(Zero, ret[4])
        /\ \A t \in 6..(FEATURE_VECTOR_SIZE - 1) : Leq(Zero, ret[t])

-----------------------------------------------------------------------------
\* The box meshes in the scene.
SceneBoxes == scene \ Fixtures

\* C15: in the demo, under every interleaving of Run clicks, Reset clicks
\* and resumed steps of the runs in progress, the box meshes in the scene are
\* exactly the contents of packedMeshes whenever a handler has returned or a
\* run is suspended at an await.  So when resetSimulation has returned the
\* scene holds no box and packedMeshes is empty, and a box that a run still
\* in progress spawns afterwards is in packedMeshes as well.
C15_SceneTracked ==
    /\ SceneBoxes = Range(packedMeshes)
    /\ Called("resetSimulation") => (SceneBoxes = {} /\ packedMeshes = <<>>)
    /\ \A r \in 1..Len(runs) :
          runs[r].pc = "await spawnBox" => Cube(r, runs[r].i) \in Range(packedMeshes)

\* A run whose first box a later Run click removed is suspended right after
\* spawning a further box, next to the first box of the later run.
C15_Witness ==
    \E r1, r2 \in 1..Len(runs) :
        /\ r1 < r2
        /\ runs[r1].pc = "await spawnBox"
        /\ runs[r1].i > 0
        /\ Cube(r1, 0) \notin scene
        /\ Cube(r1, runs[r1].i) \in scene
        /\ Cube(r2, 0) \in scene

====
